---- MODULE Spec2Model ----
(***************************************************************************)
(* A model of pdfsigner-js: the urlFetch interceptor of the signing        *)
(* engine namespace (adapters/ProxyFetchAdapter.ts), the options validator *)
(* (validation/OptionsValidator.ts), certificate resolution                *)
(* (certificates/*.ts) and the signPdf / getCertificateInfo entry points   *)
(* (PdfSigningService, lines 191-331 of certificates/P12Parser.ts).        *)
(*                                                                         *)
(* JavaScript strings are sequences of one-character strings, so that      *)
(* startsWith, the trailing-slash trim and encodeURIComponent are computed *)
(* character by character.  An optional value (undefined or a value) is a  *)
(* sequence of length 0 or 1.                                              *)
(***************************************************************************)
EXTENDS Integers, Sequences, FiniteSets, TLC

VARIABLES
    urlFetch,   \* zga.urlFetch: 0 is the engine's own function, k > 0 the closure made by install k
    closures,   \* closures[k]: what the k-th patched function closed over
    handles,    \* handles[k]: the function in place when install k began, and the proxy it was given
    lastOp,     \* the last operation done on the namespace
    fetchLog,   \* the last fetch: what was asked, what the patched function passed on
    zgaNs,      \* the memoized engine namespace of PdfSigningService
    calls,      \* the signPdf calls in flight
    clock,      \* the wall clock, read by new Date()
    scenario    \* the input and the result of the pure function under check

vars == <<urlFetch, closures, handles, lastOp, fetchLog, zgaNs, calls, clock, scenario>>

----------------------------------------------------------------------------
(* Optional values *)

None == <<>>
Some(x) == <<x>>
IsSome(o) == Len(o) = 1
Get(o) == o[1]

(* The result pairs built by ok and err of ../result: [null, value] and    *)
(* [error, null], the shape every caller destructures and the one signPdf  *)
(* builds by hand at P12Parser.ts:258.                                     *)
Ok(v) == [isErr |-> FALSE, error |-> None, value |-> Some(v)]
Err(e) == [isErr |-> TRUE, error |-> Some(e), value |-> None]

----------------------------------------------------------------------------
(* Strings *)

StartsWith(s, p) ==
    /\ Len(p) <= Len(s)
    /\ SubSeq(s, 1, Len(p)) = p

EndsWith(s, p) ==
    /\ Len(p) <= Len(s)
    /\ SubSeq(s, Len(s) - Len(p) + 1, Len(s)) = p

Lower ==
    {"a","b","c","d","e","f","g","h","i","j","k","l","m",
     "n","o","p","q","r","s","t","u","v","w","x","y","z"}
Upper ==
    {"A","B","C","D","E","F","G","H","I","J","K","L","M",
     "N","O","P","Q","R","S","T","U","V","W","X","Y","Z"}
Digit == {"0","1","2","3","4","5","6","7","8","9"}

(* The characters encodeURIComponent leaves alone (ECMA-262, uriUnescaped). *)
UriUnescaped == Lower \cup Upper \cup Digit \cup {"-","_",".","!","~","*","'","(",")"}

(* The two upper-case hex digits of the UTF-8 byte of an ASCII character.   *)
HexOf(c) ==
    CASE c = " " -> <<"2","0">>
      [] c = "\"" -> <<"2","2">>
      [] c = "#" -> <<"2","3">>
      [] c = "$" -> <<"2","4">>
      [] c = "%" -> <<"2","5">>
      [] c = "&" -> <<"2","6">>
      [] c = "+" -> <<"2","B">>
      [] c = "," -> <<"2","C">>
      [] c = "/" -> <<"2","F">>
      [] c = ":" -> <<"3","A">>
      [] c = ";" -> <<"3","B">>
      [] c = "=" -> <<"3","D">>
      [] c = "?" -> <<"3","F">>
      [] c = "<" -> <<"3","C">>
      [] c = ">" -> <<"3","E">>
      [] c = "@" -> <<"4","0">>
      [] c = "[" -> <<"5","B">>
      [] c = "\\" -> <<"5","C">>
      [] c = "]" -> <<"5","D">>
      [] c = "^" -> <<"5","E">>
      [] c = "{" -> <<"7","B">>
      [] c = "|" -> <<"7","C">>
      [] c = "}" -> <<"7","D">>

RECURSIVE encodeURIComponent(_)
encodeURIComponent(s) ==
    IF s = <<>> THEN <<>>
    ELSE (IF Head(s) \in UriUnescaped THEN <<Head(s)>> ELSE <<"%">> \o HexOf(Head(s)))
         \o encodeURIComponent(Tail(s))

S_https == <<"h","t","t","p","s",":","/","/">>
S_http == <<"h","t","t","p",":","/","/">>
S_ldap == <<"l","d","a","p",":","/","/">>
S_data == <<"d","a","t","a",":">>
S_proxyHost == <<"m","y",".","p","r","o","x","y",".","c","o","m">>
S_evilHost == <<"m","y",".","p","r","o","x","y",".","c","o","m",".","e","v","i","l",".","i","o">>
S_tsaHost == <<"t","s","a",".","e","x","a","m","p","l","e",".","c","o","m">>
S_ts == <<"/","t","s">>
S_api == <<"/","a","p","i">>
S_query == <<"/","o","c","s","p","?","a","=","b"," ","c","&","d","=","1","0","0","%">>
S_fetch == <<"/","f","e","t","c","h","?","u","r","l","=">>
S_slash == <<"/">>

----------------------------------------------------------------------------
(* adapters/ProxyFetchAdapter.ts *)

(* A header object: a function from header names to values.                *)
EmptyHeaders == [n \in {} |-> ""]

RECURSIVE normalizeBaseUrl(_)
normalizeBaseUrl(baseUrl) ==
    IF baseUrl # <<>> /\ baseUrl[Len(baseUrl)] = "/"
    THEN normalizeBaseUrl(SubSeq(baseUrl, 1, Len(baseUrl) - 1))
    ELSE baseUrl

buildProxiedUrl(proxy, originalUrl) ==
    normalizeBaseUrl(proxy.baseUrl) \o S_fetch \o encodeURIComponent(originalUrl)

(* What patchZgaUrlFetch captures before it assigns zga.urlFetch.          *)
PatchClosure(fn, proxy) ==
    [originalUrlFetch |-> fn,
     base |-> normalizeBaseUrl(proxy.baseUrl),
     customHeaders |-> IF IsSome(proxy.headers) THEN Get(proxy.headers) ELSE EmptyHeaders]

(* a spread in the other order: a's value where both have the key *)
SpreadHeaders_FirstWins(a, b) ==
    [n \in (DOMAIN a) \cup (DOMAIN b) |-> IF n \in DOMAIN a THEN a[n] ELSE b[n]]

(* { ...a, ...b }: the keys of both, b's value where both have the key.    *)
SpreadHeaders(a, b) ==
    [n \in (DOMAIN a) \cup (DOMAIN b) |-> IF n \in DOMAIN b THEN b[n] ELSE a[n]]

(* params of a fetch: undefined, or an object with an optional headers      *)
(* field and its other fields (method, body, ...).                         *)
PatchedParams(c, params) ==
    IF IsSome(params)
    THEN Some([other |-> Get(params).other,
               headers |-> Some(SpreadHeaders(
                    IF IsSome(Get(params).headers) THEN Get(Get(params).headers) ELSE EmptyHeaders,
                    c.customHeaders))])
    ELSE IF DOMAIN c.customHeaders # {}
         THEN Some([other |-> EmptyHeaders, headers |-> Some(c.customHeaders)])
         ELSE None

(* The body of the patched function: the call it makes to originalUrlFetch. *)
PatchedUrlFetch(c, url, params) ==
    IF StartsWith(url, c.base)
    THEN [fn |-> c.originalUrlFetch, url |-> url, params |-> params]
    ELSE IF ~StartsWith(url, S_http) /\ ~StartsWith(url, S_https)
    THEN [fn |-> c.originalUrlFetch, url |-> url, params |-> params]
    ELSE [fn |-> c.originalUrlFetch,
          url |-> c.base \o S_fetch \o encodeURIComponent(url),
          params |-> PatchedParams(c, params)]

(* a restore that assigns the patched function itself, so the patch stays in place *)
RestoreUrlFetch_KeepsPatch(cl, k) == k

(* a restore that puts back the engine's own function, whatever was patched over *)
RestoreUrlFetch_EngineOwn(cl, k) == 0

(* The restore function of install k: zga.urlFetch = originalUrlFetch.     *)
RestoreUrlFetch(cl, k) == cl[k].originalUrlFetch

(* A call of function fn: what it passes on (function 0 is the engine's).  *)
CallUrlFetch(cl, fn, url, params) ==
    IF fn = 0 THEN [fn |-> 0, url |-> url, params |-> params]
    ELSE PatchedUrlFetch(cl[fn], url, params)

(* The request that finally reaches the engine's own function.             *)
RECURSIVE Arrives(_, _, _, _)
Arrives(cl, fn, url, params) ==
    IF fn = 0 THEN [url |-> url, params |-> params]
    ELSE LET c == PatchedUrlFetch(cl[fn], url, params)
         IN  Arrives(cl, c.fn, c.url, c.params)

NoFetch == [call |-> 0, via |-> 0, url |-> <<>>, params |-> None, happened |-> FALSE,
            passed |-> [fn |-> 0, url |-> <<>>, params |-> None],
            arrived |-> [url |-> <<>>, params |-> None]]

FetchRecord(cl, call, fn, url, params) ==
    [call |-> call, via |-> fn, url |-> url, params |-> params, happened |-> TRUE,
     passed |-> CallUrlFetch(cl, fn, url, params),
     arrived |-> Arrives(cl, fn, url, params)]

NoOp == [kind |-> "none", handle |-> 0, again |-> FALSE]

(* patchZgaUrlFetch(zga, proxy) *)
patchZgaUrlFetch(proxy) ==
    /\ closures' = Append(closures, PatchClosure(urlFetch, proxy))
    /\ handles' = Append(handles, [before |-> urlFetch, proxy |-> proxy])
    /\ urlFetch' = Len(closures) + 1

(* The inputs *)
MaxInstalls == 2

Proxies ==
    { [baseUrl |-> S_https \o S_proxyHost \o S_slash, headers |-> None],
      [baseUrl |-> S_https \o S_proxyHost \o S_slash \o S_slash,
       headers |-> Some([n \in {"Authorization", "Content-Type"} |->
                            IF n = "Authorization" THEN "proxy-token" ELSE "proxy/type"])],
      [baseUrl |-> S_http \o S_proxyHost \o S_api,
       headers |-> Some([n \in {"Authorization"} |-> "proxy-token"])],
      [baseUrl |-> S_slash, headers |-> Some(EmptyHeaders)] }

Urls ==
    { s \o h \o p : s \in {S_https, S_http, S_ldap},
                    h \in {S_proxyHost, S_evilHost, S_tsaHost},
                    p \in {<<>>, S_ts, S_query} }
    \cup { S_data \o S_ts, S_api \o S_ts, <<>> }

ParamsSet ==
    { None,
      Some([other |-> [n \in {"method"} |-> "GET"], headers |-> None]),
      Some([other |-> [n \in {"method", "body"} |-> IF n = "method" THEN "POST" ELSE "request"],
            headers |-> Some([n \in {"Content-Type"} |-> "engine/type"])]),
      Some([other |-> EmptyHeaders,
            headers |-> Some([n \in {"Content-Type", "Accept"} |-> "engine/type"])]) }

(* The interceptor used directly (main.ts exports patchZgaUrlFetch): any    *)
(* sequence of installs, of invocations of the restore functions, and of    *)
(* fetches through zga.urlFetch of the request the behaviour began with.    *)
InitPatch ==
    /\ urlFetch = 0
    /\ closures = <<>>
    /\ handles = <<>>
    /\ lastOp = NoOp
    /\ fetchLog = NoFetch
    /\ zgaNs = FALSE
    /\ calls = <<>>
    /\ clock = 0
    /\ scenario \in [url : Urls, params : ParamsSet]

Install ==
    /\ Len(closures) < MaxInstalls
    /\ \E proxy \in Proxies : patchZgaUrlFetch(proxy)
    /\ lastOp' = [kind |-> "install", handle |-> Len(closures) + 1, again |-> FALSE]
    /\ fetchLog' = NoFetch
    /\ UNCHANGED <<zgaNs, calls, clock, scenario>>

Restore ==
    /\ \E k \in 1..Len(closures) :
        /\ urlFetch' = RestoreUrlFetch(closures, k)
        /\ lastOp' = [kind |-> "restore", handle |-> k,
                      again |-> lastOp.kind = "restore" /\ lastOp.handle = k]
    /\ fetchLog' = NoFetch
    /\ UNCHANGED <<closures, handles, zgaNs, calls, clock, scenario>>

Fetch ==
    /\ fetchLog' = FetchRecord(closures, 0, urlFetch, scenario.url, scenario.params)
    /\ lastOp' = [kind |-> "fetch", handle |-> 0, again |-> FALSE]
    /\ UNCHANGED <<urlFetch, closures, handles, zgaNs, calls, clock, scenario>>

NextPatch == Install \/ Restore \/ Fetch

SpecPatch == InitPatch /\ [][NextPatch]_vars

----------------------------------------------------------------------------
(* Properties of the interceptor (SpecPatch) *)

(* b is baseUrl with all its trailing slashes removed. *)
IsTrimmed(b, baseUrl) ==
    /\ StartsWith(baseUrl, b)
    /\ \A i \in (Len(b) + 1)..Len(baseUrl) : baseUrl[i] = "/"
    /\ (b = <<>> \/ b[Len(b)] # "/")

TrimmedBase(baseUrl) ==
    CHOOSE b \in {SubSeq(baseUrl, 1, n) : n \in 0..Len(baseUrl)} : IsTrimmed(b, baseUrl)

HasHttpScheme(url) == StartsWith(url, S_http) \/ StartsWith(url, S_https)

(* The fetch in the log went through the patched function of install k.    *)
FetchedVia(k) == fetchLog.happened /\ fetchLog.via = k /\ k > 0

(* C2: whenever the restore function of an install has just been invoked   *)
(* (for the first time or again, with any installs and restores before     *)
(* it), zga.urlFetch is the function that was in place before that install.*)
C2_RestoreReinstates ==
    lastOp.kind = "restore" => urlFetch = handles[lastOp.handle].before

(* the restore function of the first of two installs, invoked twice in a row *)
C2_Witness ==
    /\ lastOp.kind = "restore" /\ lastOp.again /\ lastOp.handle = 1
    /\ Len(closures) = 2 /\ urlFetch = 0

(* A URL targets the proxy base when it is the base or continues it at a   *)
(* path, query or fragment boundary.                                       *)
TargetsProxy(url, b) ==
    \/ url = b
    \/ \E d \in {"/", "?", "#"} : StartsWith(url, b \o <<d>>)

(* C6: an http(s) URL that does not target the proxy is passed to the      *)
(* original entry point as base + "/fetch?url=" + the percent-encoded URL, *)
(* base being proxy.baseUrl without its trailing slashes; that is the      *)
(* string buildProxiedUrl builds, and for base https://my.proxy.com/ and   *)
(* target https://tsa.example.com/ts it is the spec's example.             *)
C6_RewrittenUrl ==
    \A k \in 1..Len(closures) :
        LET proxy == handles[k].proxy
            b == TrimmedBase(proxy.baseUrl)
            out == fetchLog.passed.url
        IN  (FetchedVia(k) /\ HasHttpScheme(fetchLog.url) /\ ~TargetsProxy(fetchLog.url, b)) =>
                /\ fetchLog.passed.fn = handles[k].before
                /\ out = b \o S_fetch \o encodeURIComponent(fetchLog.url)
                /\ out = buildProxiedUrl(proxy, fetchLog.url)
                /\ (proxy.baseUrl = S_https \o S_proxyHost \o S_slash
                        /\ fetchLog.url = S_https \o S_tsaHost \o S_ts) =>
                     out = S_https \o S_proxyHost \o S_fetch
                           \o <<"h","t","t","p","s","%","3","A","%","2","F","%","2","F">>
                           \o S_tsaHost \o <<"%","2","F","t","s">>

(* C7: a fetch is passed on with its URL and params unmodified if and only *)
(* if the URL targets the proxy base or its scheme is neither http nor     *)
(* https.                                                                  *)
C7_PassThroughIff ==
    \A k \in 1..Len(closures) :
        LET b == TrimmedBase(handles[k].proxy.baseUrl)
        IN  FetchedVia(k) =>
                ((fetchLog.passed.url = fetchLog.url /\ fetchLog.passed.params = fetchLog.params)
                    <=> (TargetsProxy(fetchLog.url, b) \/ ~HasHttpScheme(fetchLog.url)))

(* C8: the params of a rewritten fetch keep the engine's fields; their     *)
(* headers are the engine's and the proxy's, the proxy's value where both  *)
(* name a header; without engine params they are the proxy's headers, or   *)
(* no params at all when the proxy has none.                               *)
C8_MergedHeaders ==
    \A k \in 1..Len(closures) :
        LET proxy == handles[k].proxy
            ph == IF IsSome(proxy.headers) THEN Get(proxy.headers) ELSE EmptyHeaders
            in == fetchLog.params
            out == fetchLog.passed.params
        IN  (FetchedVia(k) /\ fetchLog.passed.url # fetchLog.url) =>
                IF IsSome(in)
                THEN LET eh == IF IsSome(Get(in).headers) THEN Get(Get(in).headers) ELSE EmptyHeaders
                     IN  /\ IsSome(out)
                         /\ Get(out).other = Get(in).other
                         /\ IsSome(Get(out).headers)
                         /\ DOMAIN Get(Get(out).headers) = (DOMAIN eh) \cup (DOMAIN ph)
                         /\ \A n \in DOMAIN ph : Get(Get(out).headers)[n] = ph[n]
                         /\ \A n \in (DOMAIN eh) \ (DOMAIN ph) : Get(Get(out).headers)[n] = eh[n]
                ELSE IF DOMAIN ph = {}
                     THEN out = None
                     ELSE /\ IsSome(out)
                          /\ DOMAIN Get(out).other = {}
                          /\ Get(out).headers = Some(ph)

(* a rewritten fetch whose engine headers and proxy headers both name Content-Type *)
C8_Witness ==
    /\ FetchedVia(1)
    /\ fetchLog.passed.url # fetchLog.url
    /\ IsSome(fetchLog.params) /\ IsSome(Get(fetchLog.params).headers)
    /\ IsSome(handles[1].proxy.headers)
    /\ "Content-Type" \in (DOMAIN Get(Get(fetchLog.params).headers))
                            \cap (DOMAIN Get(handles[1].proxy.headers))
    /\ "Accept" \in DOMAIN Get(Get(fetchLog.passed.params).headers)

----------------------------------------------------------------------------
(* certificates/P12Parser.ts: extractCertificateInfo *)

(* A decoded certificate (forge.pki.Certificate): subject and issuer are   *)
(* lists of attributes [shortName, value]; their hash is forge's digest of *)
(* the attribute list, here the list itself; times are integers.           *)
DigestOf(attributes) == attributes

RECURSIVE formatDN(_)
formatDN(attributes) ==
    IF attributes = <<>> THEN <<>>
    ELSE <<attributes[1].shortName, "=", attributes[1].value>>
         \o (IF Len(attributes) > 1 THEN <<", ">> ELSE <<>>)
         \o formatDN(Tail(attributes))

(* attrs.find(a => a.shortName === shortName)?.value ?? '' *)
getField(attrs, shortName) ==
    LET hits == {i \in 1..Len(attrs) : attrs[i].shortName = shortName}
    IN  IF hits = {} THEN ""
        ELSE attrs[CHOOSE i \in hits : \A j \in hits : i <= j].value

(* getField(..., 'CN') || formatDN(...): a display string is a list of text pieces *)
DisplayName(attrs) ==
    IF getField(attrs, "CN") # "" THEN <<getField(attrs, "CN")>> ELSE formatDN(attrs)

(* an expiry test that counts the instant of notAfter as expired *)
extractCertificateInfo_ExpiredAtNotAfter(cert, now) ==
    [subject |-> DisplayName(cert.subject),
     issuer |-> DisplayName(cert.issuer),
     validFrom |-> cert.notBefore,
     validTo |-> cert.notAfter,
     serialNumber |-> cert.serialNumber,
     isExpired |-> now >= cert.notAfter,
     isSelfSigned |-> DigestOf(cert.subject) = DigestOf(cert.issuer)]

extractCertificateInfo(cert, now) ==
    [subject |-> DisplayName(cert.subject),
     issuer |-> DisplayName(cert.issuer),
     validFrom |-> cert.notBefore,
     validTo |-> cert.notAfter,
     serialNumber |-> cert.serialNumber,
     isExpired |-> now > cert.notAfter,
     isSelfSigned |-> DigestOf(cert.subject) = DigestOf(cert.issuer)]

----------------------------------------------------------------------------
(* validation/OptionsValidator.ts *)

AES == "aes"
SES == "ses"

(* the same checks with the expiry check moved before the proxy check *)
validateSigningOptions_ExpiryFirst(options, certInfo, now) ==
    IF certInfo.isExpired
    THEN Err([reason |-> "CERTIFICATE_EXPIRED", validTo |-> certInfo.validTo])
    ELSE IF options.level = AES /\ ~IsSome(options.proxy)
    THEN Err([reason |-> "PROXY_REQUIRED"])
    ELSE Ok([warnings |-> <<>>])

(* the same checks with the self-signed certificate at level AES made a    *)
(* hard failure                                                            *)
validateSigningOptions_SelfSignedFails(options, certInfo, now) ==
    IF options.level = AES /\ ~IsSome(options.proxy)
    THEN Err([reason |-> "PROXY_REQUIRED"])
    ELSE IF certInfo.isExpired
    THEN Err([reason |-> "CERTIFICATE_EXPIRED", validTo |-> certInfo.validTo])
    ELSE IF now < certInfo.validFrom
    THEN Err([reason |-> "CERTIFICATE_NOT_YET_VALID", validFrom |-> certInfo.validFrom])
    ELSE IF /\ IsSome(options.visibleSignature)
            /\ ~IsSome(Get(options.visibleSignature).image)
            /\ ~IsSome(Get(options.visibleSignature).text)
    THEN Err([reason |-> "INVALID_OPTIONS"])
    ELSE IF options.level = AES /\ certInfo.isSelfSigned
    THEN Err([reason |-> "SELF_SIGNED_AES"])
    ELSE Ok([warnings |->
                IF IsSome(options.proxy) /\ EndsWith(Get(options.proxy).baseUrl, S_slash)
                THEN <<"PROXY_TRAILING_SLASH">> ELSE <<>>])

(* the same checks with the visible-signature check moved before the two  *)
(* checks of the certificate's dates                                       *)
validateSigningOptions_OptionsBeforeDates(options, certInfo, now) ==
    IF options.level = AES /\ ~IsSome(options.proxy)
    THEN Err([reason |-> "PROXY_REQUIRED"])
    ELSE IF /\ IsSome(options.visibleSignature)
            /\ ~IsSome(Get(options.visibleSignature).image)
            /\ ~IsSome(Get(options.visibleSignature).text)
    THEN Err([reason |-> "INVALID_OPTIONS"])
    ELSE IF certInfo.isExpired
    THEN Err([reason |-> "CERTIFICATE_EXPIRED", validTo |-> certInfo.validTo])
    ELSE IF now < certInfo.validFrom
    THEN Err([reason |-> "CERTIFICATE_NOT_YET_VALID", validFrom |-> certInfo.validFrom])
    ELSE Ok([warnings |->
                (IF options.level = AES /\ certInfo.isSelfSigned
                 THEN <<"SELF_SIGNED_AES">> ELSE <<>>)
                \o (IF IsSome(options.proxy) /\ EndsWith(Get(options.proxy).baseUrl, S_slash)
                    THEN <<"PROXY_TRAILING_SLASH">> ELSE <<>>)])

(* now is the value of new Date() at line 48.                              *)
validateSigningOptions(options, certInfo, now) ==
    IF options.level = AES /\ ~IsSome(options.proxy)
    THEN Err([reason |-> "PROXY_REQUIRED"])
    ELSE IF certInfo.isExpired
    THEN Err([reason |-> "CERTIFICATE_EXPIRED", validTo |-> certInfo.validTo])
    ELSE IF now < certInfo.validFrom
    THEN Err([reason |-> "CERTIFICATE_NOT_YET_VALID", validFrom |-> certInfo.validFrom])
    ELSE IF /\ IsSome(options.visibleSignature)
            /\ ~IsSome(Get(options.visibleSignature).image)
            /\ ~IsSome(Get(options.visibleSignature).text)
    THEN Err([reason |-> "INVALID_OPTIONS"])
    ELSE Ok([warnings |->
                (IF options.level = AES /\ certInfo.isSelfSigned
                 THEN <<"SELF_SIGNED_AES">> ELSE <<>>)
                \o (IF IsSome(options.proxy) /\ EndsWith(Get(options.proxy).baseUrl, S_slash)
                    THEN <<"PROXY_TRAILING_SLASH">> ELSE <<>>)])

(* The inputs *)
MaxTime == 3

Subjects ==
    { <<[shortName |-> "CN", value |-> "Alice"], [shortName |-> "O", value |-> "Org"]>>,
      <<[shortName |-> "O", value |-> "Org"], [shortName |-> "C", value |-> "US"]>> }

Issuers ==
    { <<[shortName |-> "CN", value |-> "Test CA"]>>,
      <<[shortName |-> "O", value |-> "Org"], [shortName |-> "C", value |-> "US"]>> }

Certificates ==
    { [subject |-> su, issuer |-> is, notBefore |-> nb, notAfter |-> na, serialNumber |-> "0a1b"] :
        su \in Subjects, is \in Issuers, nb \in {-2, 2}, na \in {-1, 1, MaxTime + 2} }

VisibleSignatures ==
    { None,
      Some([image |-> None, text |-> None]),
      Some([image |-> Some("png"), text |-> None]),
      Some([image |-> None, text |-> Some("Signed")]) }

ValidatorOptions ==
    [level : {AES, SES},
     proxy : {None} \cup {Some(p) : p \in {q \in Proxies : IsSome(q.headers)}},
     visibleSignature : VisibleSignatures,
     tsa : {None, Some([url |-> Some("1"), headers |-> None])},
     metadata : {None, Some([reason |-> Some("Approved")])}]

(* One validation: the certificate's info is extracted at some time, the   *)
(* options are validated against it at that time or later.                 *)
InitValidate ==
    /\ urlFetch = 0
    /\ closures = <<>>
    /\ handles = <<>>
    /\ lastOp = NoOp
    /\ fetchLog = NoFetch
    /\ zgaNs = FALSE
    /\ calls = <<>>
    /\ clock = 0
    /\ scenario \in [options : ValidatorOptions, cert : Certificates,
                     info : {None}, result : {None}, validatedAt : {0}]

Tick ==
    /\ clock < MaxTime
    /\ clock' = clock + 1
    /\ UNCHANGED <<urlFetch, closures, handles, lastOp, fetchLog, zgaNs, calls, scenario>>

Extract ==
    /\ ~IsSome(scenario.info)
    /\ scenario' = [scenario EXCEPT !.info = Some(extractCertificateInfo(scenario.cert, clock))]
    /\ UNCHANGED <<urlFetch, closures, handles, lastOp, fetchLog, zgaNs, calls, clock>>

Validate ==
    /\ IsSome(scenario.info)
    /\ ~IsSome(scenario.result)
    /\ scenario' = [scenario EXCEPT
            !.result = Some(validateSigningOptions(scenario.options, Get(scenario.info), clock)),
            !.validatedAt = clock]
    /\ UNCHANGED <<urlFetch, closures, handles, lastOp, fetchLog, zgaNs, calls, clock>>

NextValidate == Tick \/ Extract \/ Validate

SpecValidate == InitValidate /\ [][NextValidate]_vars

Validated == IsSome(scenario.result)

FailsWith(result, reason) ==
    result.isErr /\ Get(result.error).reason = reason

(* C4: at level AES without a proxy the result is the PROXY_REQUIRED error, *)
(* whatever the certificate info and the other option fields are.          *)
C4_ProxyRequired ==
    (Validated /\ scenario.options.level = AES /\ ~IsSome(scenario.options.proxy)) =>
        /\ FailsWith(Get(scenario.result), "PROXY_REQUIRED")
        /\ ~IsSome(Get(scenario.result).value)

(* AES without proxy, validated with an expired self-signed certificate and *)
(* a visible signature that has neither image nor text                     *)
C4_Witness ==
    /\ Validated /\ scenario.options.level = AES /\ ~IsSome(scenario.options.proxy)
    /\ Get(scenario.info).isExpired /\ Get(scenario.info).isSelfSigned
    /\ scenario.options.visibleSignature = Some([image |-> None, text |-> None])
    /\ IsSome(scenario.options.tsa) /\ IsSome(scenario.options.metadata)

(* C5: a certificate whose validTo is before the time of validation fails  *)
(* with CERTIFICATE_EXPIRED carrying validTo (stated here for the options  *)
(* the proxy check lets through: level SES, or a proxy configured).        *)
C5_ExpiredAtValidation ==
    (/\ Validated
     /\ scenario.cert.notAfter < scenario.validatedAt
     /\ (scenario.options.level = SES \/ IsSome(scenario.options.proxy))) =>
        /\ FailsWith(Get(scenario.result), "CERTIFICATE_EXPIRED")
        /\ Get(Get(scenario.result).error).validTo = scenario.cert.notAfter

(* The conditions of the four rules, on the options and the certificate    *)
(* info the validator was given and the time it ran at.                    *)
RuleHolds(n) ==
    LET options == scenario.options
        certInfo == Get(scenario.info)
    IN  CASE n = 1 -> options.level = AES /\ ~IsSome(options.proxy)
          [] n = 2 -> certInfo.isExpired
          [] n = 3 -> scenario.validatedAt < certInfo.validFrom
          [] n = 4 -> /\ IsSome(options.visibleSignature)
                      /\ ~IsSome(Get(options.visibleSignature).image)
                      /\ ~IsSome(Get(options.visibleSignature).text)

RuleReason(n) ==
    CASE n = 1 -> "PROXY_REQUIRED"
      [] n = 2 -> "CERTIFICATE_EXPIRED"
      [] n = 3 -> "CERTIFICATE_NOT_YET_VALID"
      [] n = 4 -> "INVALID_OPTIONS"

FiringRules == {n \in 1..4 : RuleHolds(n)}

(* C14: the result is a success exactly when no rule's condition holds,    *)
(* and otherwise the error of the lowest-numbered rule whose condition     *)
(* holds (with validTo for rule 2 and validFrom for rule 3); so options    *)
(* with a visible signature that has neither image nor text fail with      *)
(* INVALID_OPTIONS exactly when rules 1 to 3 do not fire.                  *)
C14_FirstFailureWins ==
    Validated =>
        LET result == Get(scenario.result)
            first == CHOOSE n \in FiringRules : \A m \in FiringRules : n <= m
        IN  /\ ~result.isErr <=> FiringRules = {}
            /\ FiringRules # {} =>
                    /\ FailsWith(result, RuleReason(first))
                    /\ ~IsSome(result.value)
                    /\ first = 2 => Get(result.error).validTo = Get(scenario.info).validTo
                    /\ first = 3 => Get(result.error).validFrom = Get(scenario.info).validFrom
            /\ RuleHolds(4) =>
                    (FailsWith(result, "INVALID_OPTIONS") <=> FiringRules = {4})

(* rules 2, 3 and 4 hold together and the error is that of rule 2 *)
C14_Witness ==
    /\ Validated
    /\ FiringRules = {2, 3, 4}
    /\ FailsWith(Get(scenario.result), "CERTIFICATE_EXPIRED")

----------------------------------------------------------------------------
(* certificates/P12Parser.ts: parseP12 *)

(* A PKCS#12 container as node-forge decodes it: whether its DER is well   *)
(* formed, the password its MAC verifies under, and its bags (an entry of  *)
(* a bag may lack its cert or key).                                        *)
ParseError(message) == [reason |-> "CERTIFICATE_PARSE_ERROR", message |-> message]

(* A message is a text: a sequence of strings read end to end.  The        *)
(* messages of thrown values are kept character by character, so that      *)
(* includes() is computed on them.                                         *)
Includes(text, part) ==
    \E n \in 0..(Len(text) - Len(part)) : SubSeq(text, n + 1, n + Len(part)) = part

S_InvalidPassword ==
    <<"I","n","v","a","l","i","d"," ","p","a","s","s","w","o","r","d">>
S_Pkcs12Mac ==
    <<"P","K","C","S","#","1","2"," ","M","A","C">>
S_TooFewBytes ==
    <<"T","o","o"," ","f","e","w"," ","b","y","t","e","s"," ","t","o"," ",
      "p","a","r","s","e"," ","D","E","R",".">>
S_MacNotVerified ==
    <<"P","K","C","S","#","1","2"," ","M","A","C"," ","c","o","u","l","d",
      " ","n","o","t"," ","b","e"," ","v","e","r","i","f","i","e","d",".",
      " ","I","n","v","a","l","i","d"," ","p","a","s","s","w","o","r","d",
      "?">>

(* A thrown value: whether it is an instance of Error, its message, and    *)
(* what String() makes of it.  For an Error that is Error.prototype       *)
(* .toString: the message when the name is empty, the name when the       *)
(* message is empty, and otherwise the two joined by ": ".                *)
ErrorOf(name, message) ==
    [instanceOfError |-> TRUE, name |-> name, message |-> message,
     string |-> IF name = "" THEN message
                ELSE IF Len(message) = 0 \/ message \in Seq({""}) THEN <<name>>
                ELSE <<name, ": ">> \o message]

(* error instanceof Error ? error.message : String(error) *)
MessageOf(error) == IF error.instanceOfError THEN error.message ELSE error.string

(* retrieveCertificateBags: getBags always returns an object, so only the  *)
(* check of the first certificate can fail.                                *)
retrieveCertificateBags(data) ==
    IF data.certBag = <<>> \/ ~IsSome(data.certBag[1])
    THEN Err(ParseError(<<"No certificate found in PKCS#12 file.">>))
    ELSE Ok([certBag |-> data.certBag, keyBag |-> data.shroudedKeyBag])

(* What the try block throws before the bags are read, if anything.        *)
Pkcs12DecodeError(data, password) ==
    IF ~data.wellFormed THEN Some(ErrorOf("Error", S_TooFewBytes))
    ELSE IF password # data.password
    THEN Some(ErrorOf("Error", S_MacNotVerified))
    ELSE None

(* message.includes('Invalid password') || message.includes('PKCS#12 MAC') *)
IsPasswordMessage(message) ==
    Includes(message, S_InvalidPassword) \/ Includes(message, S_Pkcs12Mac)

SelectSeq1(seq) ==
    LET RECURSIVE Keep(_)
        Keep(q) == IF q = <<>> THEN <<>>
                   ELSE (IF IsSome(Head(q)) THEN <<Get(Head(q))>> ELSE <<>>) \o Keep(Tail(q))
    IN  Keep(seq)

parseP12(data, password) ==
    LET thrown == Pkcs12DecodeError(data, password)
        bags == retrieveCertificateBags(data)
        privateKey ==
            IF data.shroudedKeyBag # <<>> /\ IsSome(data.shroudedKeyBag[1])
            THEN data.shroudedKeyBag[1]
            ELSE IF data.keyBag # <<>> /\ IsSome(data.keyBag[1])
            THEN data.keyBag[1]
            ELSE None
    IN  IF IsSome(thrown)
        THEN IF IsPasswordMessage(MessageOf(Get(thrown)))
             THEN Err(ParseError(<<"Invalid certificate password.">>))
             ELSE Err(ParseError(MessageOf(Get(thrown))))
        ELSE IF bags.isErr THEN bags
        ELSE IF ~IsSome(privateKey)
        THEN Err(ParseError(<<"No private key found in PKCS#12 file.">>))
        ELSE Ok([p12Buffer |-> data,
                 password |-> password,
                 certificate |-> Get(data.certBag[1]),
                 privateKey |-> Get(privateKey),
                 caCertificates |-> SelectSeq1(Tail(data.certBag))])

----------------------------------------------------------------------------
(* certificates/PemParser.ts *)

INTERNAL_P12_PASSWORD == "__temp_password__"

(* convertToP12Zgapdfsigner: a container holding the certificate and the   *)
(* key (shrouded, 3des) under the internal password; toPkcs12Asn1 throws   *)
(* for a key it cannot encode.                                             *)
convertToP12Zgapdfsigner(certificate, privateKey) ==
    IF ~privateKey.encodable
    THEN Err(ParseError(<<"Failed to convert PEM to P12: ", "Unsupported key.">>))
    ELSE Ok([p12Buffer |-> [wellFormed |-> TRUE,
                            password |-> INTERNAL_P12_PASSWORD,
                            certBag |-> <<Some(certificate)>>,
                            shroudedKeyBag |-> <<Some(privateKey)>>,
                            keyBag |-> <<>>],
             password |-> INTERNAL_P12_PASSWORD,
             certificate |-> certificate,
             privateKey |-> privateKey])

(* a parsePem that goes to the decryption without testing the passphrase *)
parsePem_NoPassphraseTest(certificatePem, privateKeyPem, passphrase) ==
    IF ~IsSome(certificatePem.cert)
    THEN Err(ParseError(<<"Failed to parse PEM certificate: ", "Invalid PEM formatted message.">>))
    ELSE IF ~privateKeyPem.wellFormed
    THEN Err(ParseError(<<"Failed to parse PEM private key: ", "Invalid PEM formatted message.">>))
    ELSE IF privateKeyPem.marked /\ passphrase # Some(privateKeyPem.passphrase)
    THEN Err(ParseError(<<"Failed to decrypt private key. Wrong passphrase?">>))
    ELSE convertToP12Zgapdfsigner(Get(certificatePem.cert), privateKeyPem.key)

(* A PEM certificate text decodes to a certificate or is malformed; a PEM  *)
(* key text says whether it contains 'ENCRYPTED', whether it is well       *)
(* formed, the passphrase that decrypts it, and what forge does with a     *)
(* wrong passphrase (returns null, or throws on the garbled bytes).        *)
parsePem(certificatePem, privateKeyPem, passphrase) ==
    IF ~IsSome(certificatePem.cert)
    THEN Err(ParseError(<<"Failed to parse PEM certificate: ", "Invalid PEM formatted message.">>))
    ELSE IF privateKeyPem.marked
    THEN IF ~IsSome(passphrase) \/ passphrase = Some("")
         THEN Err([reason |-> "PASSPHRASE_REQUIRED",
                   message |-> <<"The PEM private key is encrypted. Provide a passphrase in the PEM certificate provider.">>])
         ELSE IF ~privateKeyPem.wellFormed
         THEN Err(ParseError(<<"Failed to parse PEM private key: ", "Invalid PEM formatted message.">>))
         ELSE IF Get(passphrase) # privateKeyPem.passphrase
         THEN IF privateKeyPem.wrongPassphrase = "null"
              THEN Err(ParseError(<<"Failed to decrypt private key. Wrong passphrase?">>))
              ELSE Err(ParseError(<<"Failed to parse PEM private key: ", "Too few bytes to parse DER.">>))
         ELSE convertToP12Zgapdfsigner(Get(certificatePem.cert), privateKeyPem.key)
    ELSE IF ~privateKeyPem.wellFormed
    THEN Err(ParseError(<<"Failed to parse PEM private key: ", "Invalid PEM formatted message.">>))
    ELSE convertToP12Zgapdfsigner(Get(certificatePem.cert), privateKeyPem.key)

(* The inputs: a certificate text, a key text, and a passphrase that is    *)
(* absent, empty, right or wrong.                                          *)
Passphrases == {None, Some(""), Some("pw"), Some("bad")}

PemCertificateTexts ==
    { [cert |-> None],
      [cert |-> Some([subject |-> <<[shortName |-> "CN", value |-> "Alice"]>>,
                      issuer |-> <<[shortName |-> "CN", value |-> "Test CA"]>>,
                      notBefore |-> -2, notAfter |-> 1, serialNumber |-> "0a1b"])] }

PemKeyTexts ==
    [marked : BOOLEAN, wellFormed : BOOLEAN, passphrase : {"pw"},
     wrongPassphrase : {"null", "throws"},
     key : {[id |-> "rsa", encodable |-> TRUE], [id |-> "ec", encodable |-> FALSE]}]

(* One call of parsePem on texts and a passphrase.                         *)
InitPem ==
    /\ urlFetch = 0
    /\ closures = <<>>
    /\ handles = <<>>
    /\ lastOp = NoOp
    /\ fetchLog = NoFetch
    /\ zgaNs = FALSE
    /\ calls = <<>>
    /\ clock = 0
    /\ scenario \in [certificatePem : PemCertificateTexts, privateKeyPem : PemKeyTexts,
                     passphrase : Passphrases, result : {None}]

ParsePem ==
    /\ ~IsSome(scenario.result)
    /\ scenario' = [scenario EXCEPT !.result =
            Some(parsePem(scenario.certificatePem, scenario.privateKeyPem, scenario.passphrase))]
    /\ UNCHANGED <<urlFetch, closures, handles, lastOp, fetchLog, zgaNs, calls, clock>>

NextPem == ParsePem

SpecPem == InitPem /\ [][NextPem]_vars

(* The passphrase is given and is not the empty string.                    *)
PassphraseSupplied == IsSome(scenario.passphrase) /\ scenario.passphrase # Some("")

(* The decryption of the key text with the passphrase fails.               *)
DecryptionFails ==
    \/ ~scenario.privateKeyPem.wellFormed
    \/ Get(scenario.passphrase) # scenario.privateKeyPem.passphrase

PemFailsWith(reason) ==
    LET r == Get(scenario.result)
    IN  r.isErr /\ Get(r.error).reason = reason /\ ~IsSome(r.value)

(* C12 as stated: whatever the certificate text, a key text marked         *)
(* encrypted fails with PASSPHRASE_REQUIRED when no passphrase is supplied *)
(* and with CERTIFICATE_PARSE_ERROR when one is supplied and the           *)
(* decryption fails; no container is returned either way.                  *)
C12_EncryptedKeyAnyCertificate ==
    (IsSome(scenario.result) /\ scenario.privateKeyPem.marked) =>
        /\ ~PassphraseSupplied => PemFailsWith("PASSPHRASE_REQUIRED")
        /\ (PassphraseSupplied /\ DecryptionFails) => PemFailsWith("CERTIFICATE_PARSE_ERROR")

(* C12, amended: when the certificate text parses, a key text marked       *)
(* encrypted fails with PASSPHRASE_REQUIRED when the passphrase is absent  *)
(* or empty (whether or not the key text is well formed) and with          *)
(* CERTIFICATE_PARSE_ERROR when a passphrase is supplied and the           *)
(* decryption fails; when the certificate text does not parse the failure  *)
(* is CERTIFICATE_PARSE_ERROR; no container is returned in any of these.   *)
C12_EncryptedKeyParsedCertificate ==
    (IsSome(scenario.result) /\ scenario.privateKeyPem.marked) =>
        IF IsSome(scenario.certificatePem.cert)
        THEN /\ ~PassphraseSupplied => PemFailsWith("PASSPHRASE_REQUIRED")
             /\ (PassphraseSupplied /\ DecryptionFails) => PemFailsWith("CERTIFICATE_PARSE_ERROR")
        ELSE PemFailsWith("CERTIFICATE_PARSE_ERROR")

(* a parsed certificate, a key text marked encrypted and not well formed,  *)
(* no passphrase                                                           *)
C12_Witness ==
    /\ IsSome(scenario.result)
    /\ IsSome(scenario.certificatePem.cert)
    /\ scenario.privateKeyPem.marked /\ ~scenario.privateKeyPem.wellFormed
    /\ scenario.passphrase = None
    /\ PemFailsWith("PASSPHRASE_REQUIRED")

----------------------------------------------------------------------------
(* certificates/CertificateInspector.ts *)

(* What a function returns when it falls off its end, and what a          *)
(* function that throws leaves its caller with.                            *)
Undefined == [undefined |-> TRUE]
IsUndefined(r) == "undefined" \in DOMAIN r

Thrown(error) == [thrown |-> error]
IsThrown(r) == "thrown" \in DOMAIN r

(* const [a, b] = undefined *)
NotIterable ==
    ErrorOf("TypeError",
            <<"resolveCertificate is not a function or its return value is not iterable">>)

(* The switch has the cases 'p12' and 'pem' and no default: for any other  *)
(* tag the function returns undefined.                                     *)
resolveCertificate(provider, now) ==
    LET Resolved(parsed) ==
            IF parsed.isErr THEN Err(Get(parsed.error))
            ELSE Ok([p12Buffer |-> Get(parsed.value).p12Buffer,
                     password |-> Get(parsed.value).password,
                     info |-> extractCertificateInfo(Get(parsed.value).certificate, now)])
    IN  CASE provider.type = "p12" ->
                Resolved(parseP12(provider.data, provider.password))
          [] provider.type = "pem" ->
                Resolved(parsePem(provider.certificate, provider.privateKey, provider.passphrase))
          [] OTHER -> Undefined

(* The destructuring at line 51 throws when resolveCertificate returned    *)
(* undefined.                                                              *)
inspectCertificate(provider, now) ==
    LET resolved == resolveCertificate(provider, now)
    IN  IF IsUndefined(resolved) THEN Thrown(NotIterable)
        ELSE IF resolved.isErr THEN Err(Get(resolved.error))
        ELSE Ok(Get(resolved.value).info)

(* PdfSigningService: getCertificateInfo.  What inspectCertificate returns *)
(* is wrapped in ok(); what it throws is caught and reported as            *)
(* CERTIFICATE_PARSE_FAILED.                                               *)
getCertificateInfo(provider, now) ==
    LET inspected == inspectCertificate(provider, now)
    IN  IF IsThrown(inspected)
        THEN Err([reason |-> "CERTIFICATE_PARSE_FAILED",
                  message |-> MessageOf(inspected.thrown),
                  cause |-> IF inspected.thrown.instanceOfError
                            THEN Some(inspected.thrown) ELSE None])
        ELSE Ok(inspected)

(* The inputs *)
MaxInspections == 2

Keys == { [id |-> "rsa", encodable |-> TRUE], [id |-> "ec", encodable |-> FALSE] }

SampleCertificates ==
    { c \in Certificates : c.notBefore = -2 /\ (c.subject = c.issuer <=> c.notAfter = 1) }

Containers ==
    { [wellFormed |-> wf, password |-> "secret", certBag |-> cb, shroudedKeyBag |-> sk, keyBag |-> kb] :
        wf \in BOOLEAN,
        cb \in {<<>>, <<None>>} \cup {<<Some(c)>> : c \in SampleCertificates}
               \cup {<<Some(c), None, Some(c)>> : c \in SampleCertificates},
        sk \in {<<>>, <<None>>, <<Some([id |-> "rsa", encodable |-> TRUE])>>},
        kb \in {<<>>, <<Some([id |-> "legacy", encodable |-> TRUE])>>} }

PemCertificates == {[cert |-> None]} \cup {[cert |-> Some(c)] : c \in SampleCertificates}

PemKeys ==
    [marked : BOOLEAN, wellFormed : BOOLEAN, passphrase : {"pw"},
     wrongPassphrase : {"null", "throws"}, key : Keys]

Providers ==
    { [type |-> "p12", data |-> d, password |-> pw] : d \in Containers, pw \in {"secret", "guess"} }
    \cup
    { [type |-> "pem", certificate |-> c, privateKey |-> k, passphrase |-> pp] :
        c \in PemCertificates, k \in PemKeys, pp \in {None, Some(""), Some("pw"), Some("bad")} }
    \cup
    { [type |-> "der", certificate |-> c, privateKey |-> k] :
        c \in {q \in PemCertificates : IsSome(q.cert) /\ Get(q.cert).notAfter = 1},
        k \in {q \in PemKeys : ~q.marked /\ q.wellFormed /\ q.wrongPassphrase = "null"
                                        /\ q.key.encodable} }

(* Inspections of one provider, at any times.                              *)
InitInspect ==
    /\ urlFetch = 0
    /\ closures = <<>>
    /\ handles = <<>>
    /\ lastOp = NoOp
    /\ fetchLog = NoFetch
    /\ zgaNs = FALSE
    /\ calls = <<>>
    /\ clock = 0
    /\ scenario \in [provider : Providers, inspections : {<<>>}]

TickInspect ==
    /\ clock < MaxTime
    /\ clock' = clock + 1
    /\ UNCHANGED <<urlFetch, closures, handles, lastOp, fetchLog, zgaNs, calls, scenario>>

Inspect ==
    /\ Len(scenario.inspections) < MaxInspections
    /\ scenario' = [scenario EXCEPT !.inspections =
            Append(@, [at |-> clock, result |-> getCertificateInfo(scenario.provider, clock)])]
    /\ UNCHANGED <<urlFetch, closures, handles, lastOp, fetchLog, zgaNs, calls, clock>>

NextInspect == TickInspect \/ Inspect

SpecInspect == InitInspect /\ [][NextInspect]_vars

InfoFields ==
    {"subject", "issuer", "validFrom", "validTo", "serialNumber", "isExpired", "isSelfSigned"}

(* C10: getCertificateInfo returns an error whenever resolveCertificate    *)
(* fails (the generic CERTIFICATE_PARSE_FAILED when the inspection threw), *)
(* and otherwise a success whose value is the CertificateInfo itself, with *)
(* its seven fields.                                                       *)
C10_InspectionResult ==
    \A i \in 1..Len(scenario.inspections) :
        LET r == scenario.inspections[i].result
            resolved == resolveCertificate(scenario.provider, scenario.inspections[i].at)
        IN  IF IsUndefined(resolved)
            THEN r.isErr /\ Get(r.error).reason = "CERTIFICATE_PARSE_FAILED"
            ELSE IF resolved.isErr
            THEN r.isErr /\ r.error = resolved.error
            ELSE /\ ~r.isErr
                 /\ DOMAIN Get(r.value) = InfoFields
                 /\ Get(r.value) = Get(resolved.value).info

(* What inspectCertificate returned in the i-th inspection (the error of   *)
(* getCertificateInfo when it threw), and when.                            *)
Inspected(i) ==
    IF scenario.inspections[i].result.isErr
    THEN scenario.inspections[i].result
    ELSE Get(scenario.inspections[i].result.value)
InspectedAt(i) == scenario.inspections[i].at

(* C11 as stated: any two inspections of the provider, at any two times,   *)
(* return equal results, isExpired included.                               *)
C11_SameInfoAnyTime ==
    \A i, j \in 1..Len(scenario.inspections) : Inspected(i) = Inspected(j)

(* C11, amended: two inspections of the provider both fail with the same   *)
(* error or both succeed with equal subject, issuer, validFrom, validTo,   *)
(* serialNumber and isSelfSigned; isExpired of each says whether its own   *)
(* time is after validTo, so the two infos are equal whenever the two      *)
(* times are on the same side of validTo.                                  *)
C11_SameInfoButExpiry ==
    \A i, j \in 1..Len(scenario.inspections) :
        /\ Inspected(i).isErr = Inspected(j).isErr
        /\ Inspected(i).isErr => Inspected(i) = Inspected(j)
        /\ ~Inspected(i).isErr =>
            LET a == Get(Inspected(i).value)
                b == Get(Inspected(j).value)
            IN  /\ \A f \in InfoFields \ {"isExpired"} : a[f] = b[f]
                /\ a.isExpired = (InspectedAt(i) > a.validTo)
                /\ ((InspectedAt(i) > a.validTo) = (InspectedAt(j) > a.validTo)) => a = b

(* two successful inspections, the first at the instant of validTo and the *)
(* second after it                                                         *)
C11_Witness ==
    /\ Len(scenario.inspections) = 2
    /\ ~Inspected(1).isErr /\ ~Inspected(2).isErr
    /\ InspectedAt(1) = Get(Inspected(1).value).validTo
    /\ InspectedAt(2) > InspectedAt(1)
    /\ ~Get(Inspected(1).value).isExpired /\ Get(Inspected(2).value).isExpired

----------------------------------------------------------------------------
(* adapters/ZgaSignerAdapter.ts *)

(* A JavaScript object is a function from its own keys to their values; a  *)
(* value is optional, and a key whose value is None is a key that holds    *)
(* undefined (which 'in' and Object.keys see, unlike a key never set).     *)
EmptyObject == [k \in {} |-> None]

Put(obj, key, value) ==
    [k \in (DOMAIN obj) \cup {key} |-> IF k = key THEN value ELSE obj[k]]

DEFAULT_TSA_PRESET == "1"

TEXT_ALIGN_MAP == [left |-> 0, center |-> 1, right |-> 2]

(* An optional string that is given and not empty (JavaScript truthiness). *)
TruthyString(o) == IsSome(o) /\ Get(o) # ""

(* The two shapes of signdate: a string, or a TsaServiceInfo.              *)
TsaString(url) == [type |-> "string", value |-> url]
TsaServiceInfo(url, headers) == [type |-> "object", url |-> url, headers |-> headers]

(* Lines 46-64 with the level test left out: timestamp and LTV at any level *)
TsaAndLtv_AnyLevel(options, signOption) ==
    LET signdate ==
            IF IsSome(options.tsa) /\ TruthyString(Get(options.tsa).url)
            THEN IF IsSome(Get(options.tsa).headers)
                 THEN TsaServiceInfo(Get(Get(options.tsa).url),
                                     SpreadHeaders(EmptyHeaders, Get(Get(options.tsa).headers)))
                 ELSE TsaString(Get(Get(options.tsa).url))
            ELSE TsaString(DEFAULT_TSA_PRESET)
        ltv == IF IsSome(options.ltvMethod) THEN Get(options.ltvMethod) ELSE 1
    IN  Put(Put(signOption, "signdate", Some(signdate)), "ltv", Some(ltv))

(* Lines 46-64: TSA + LTV (AES only).                                      *)
TsaAndLtv(options, signOption) ==
    IF options.level = AES
    THEN LET signdate ==
                IF IsSome(options.tsa) /\ TruthyString(Get(options.tsa).url)
                THEN IF IsSome(Get(options.tsa).headers)
                     THEN TsaServiceInfo(Get(Get(options.tsa).url),
                                         SpreadHeaders(EmptyHeaders, Get(Get(options.tsa).headers)))
                     ELSE TsaString(Get(Get(options.tsa).url))
                ELSE TsaString(DEFAULT_TSA_PRESET)
             ltv == IF IsSome(options.ltvMethod) THEN Get(options.ltvMethod) ELSE 1
         IN  Put(Put(signOption, "signdate", Some(signdate)), "ltv", Some(ltv))
    ELSE signOption

(* Lines 89-98: the textInfo object, every key of it set.                  *)
TextInfo(text) ==
    [k \in {"text", "size", "fontData", "subset", "color", "align", "lineHeight"} |->
        CASE k = "text" -> Some(text.content)
          [] k = "size" -> Some(text.fontSize)
          [] k = "fontData" -> text.fontData
          [] k = "subset" -> text.fontSubset
          [] k = "color" -> text.color
          [] k = "align" -> IF IsSome(text.align) THEN Some(TEXT_ALIGN_MAP[Get(text.align)]) ELSE None
          [] k = "lineHeight" -> text.lineHeight]

(* Lines 66-100: drawinf.                                                  *)
DrawInf(vs) ==
    LET area == [k \in {"x", "y", "w", "h"} |->
                    CASE k = "x" -> Some(vs.position.x)
                      [] k = "y" -> Some(vs.position.y)
                      [] k = "w" -> vs.position.width
                      [] k = "h" -> vs.position.height]
        d1 == Put(EmptyObject, "area", Some(area))
        d2 == IF IsSome(vs.position.page) THEN Put(d1, "pageidx", vs.position.page) ELSE d1
        d3 == IF IsSome(vs.image)
              THEN Put(d2, "imgInfo", Some([imgData |-> Get(vs.image).data,
                                            imgType |-> Get(vs.image).type]))
              ELSE d2
    IN  IF IsSome(vs.text) THEN Put(d3, "textInfo", Some(TextInfo(Get(vs.text)))) ELSE d3

buildSignOption(options, resolved) ==
    LET s1 == Put(Put(EmptyObject, "p12cert", Some(resolved.p12Buffer)),
                  "pwd", Some(resolved.password))
        s2 == IF IsSome(options.permission) THEN Put(s1, "permission", options.permission) ELSE s1
        s3 == IF IsSome(options.metadata)
              THEN Put(Put(Put(Put(s2, "reason", Get(options.metadata).reason),
                                   "location", Get(options.metadata).location),
                                   "contact", Get(options.metadata).contact),
                                   "signame", Get(options.metadata).name)
              ELSE s2
        s4 == IF options.debug = Some(TRUE) THEN Put(s3, "debug", Some(TRUE)) ELSE s3
        s5 == TsaAndLtv(options, s4)
    IN  IF IsSome(options.visibleSignature)
        THEN Put(s5, "drawinf", Some(DrawInf(Get(options.visibleSignature))))
        ELSE s5

(* The inputs *)
TsaConfigs ==
    { None,
      Some([url |-> None, headers |-> None]),
      Some([url |-> Some(""), headers |-> None]),
      Some([url |-> Some("2"), headers |-> None]),
      Some([url |-> Some("https://tsa.example.com/ts"), headers |-> Some(EmptyHeaders)]),
      Some([url |-> Some("https://tsa.example.com/ts"),
            headers |-> Some([n \in {"Authorization"} |-> "tsa-token"])]),
      Some([url |-> None, headers |-> Some([n \in {"Authorization"} |-> "tsa-token"])]) }

Metadatas ==
    { None,
      Some([reason |-> None, location |-> None, contact |-> None, name |-> None]),
      Some([reason |-> Some("Approved"), location |-> None, contact |-> None, name |-> None]),
      Some([reason |-> Some("Approved"), location |-> Some("Belgrade"),
            contact |-> Some("a@example.com"), name |-> Some("Alice")]) }

SignaturePositions ==
    { [x |-> 10, y |-> 20, width |-> None, height |-> None, page |-> None],
      [x |-> 10, y |-> 20, width |-> Some(100), height |-> Some(40), page |-> Some(0)] }

SignatureTexts ==
    { [content |-> "Signed", fontSize |-> 12, fontData |-> None, fontSubset |-> None,
       color |-> None, align |-> al, lineHeight |-> None] :
        al \in {None, Some("left"), Some("center"), Some("right")} }

ConfigVisibleSignatures ==
    { None,
      Some([position |-> CHOOSE q \in SignaturePositions : ~IsSome(q.page),
            image |-> None, text |-> None]) }
    \cup { Some([position |-> q, image |-> Some([data |-> "pixels", type |-> "png"]), text |-> None]) :
            q \in SignaturePositions }
    \cup { Some([position |-> CHOOSE q \in SignaturePositions : IsSome(q.page),
                 image |-> None, text |-> Some(t)]) : t \in SignatureTexts }

ConfigOptions ==
    [level : {AES, SES},
     tsa : TsaConfigs,
     ltvMethod : {None, Some(1), Some(2)},
     permission : {None, Some(2)},
     metadata : Metadatas,
     debug : {None, Some(FALSE), Some(TRUE)},
     visibleSignature : ConfigVisibleSignatures]

ResolvedCertificates ==
    { Get(resolveCertificate(provider, 0).value) :
        provider \in { pr \in Providers :
            /\ pr.type \in {"p12", "pem"}
            /\ pr.type = "p12" => (pr.data.certBag = <<Some(CHOOSE c \in SampleCertificates : c.notAfter = 1)>>
                                    /\ pr.data.keyBag = <<>>)
            /\ pr.type = "pem" => (pr.certificate.cert = Some(CHOOSE c \in SampleCertificates : c.notAfter = 1)
                                    /\ ~pr.privateKey.marked /\ pr.privateKey.wrongPassphrase = "null"
                                    /\ pr.passphrase = None)
            /\ ~resolveCertificate(pr, 0).isErr } }

(* One call of buildSignOption on options and a resolved certificate.      *)
InitConfig ==
    /\ urlFetch = 0
    /\ closures = <<>>
    /\ handles = <<>>
    /\ lastOp = NoOp
    /\ fetchLog = NoFetch
    /\ zgaNs = FALSE
    /\ calls = <<>>
    /\ clock = 0
    /\ scenario \in [options : ConfigOptions, resolved : ResolvedCertificates, config : {None}]

BuildConfig ==
    /\ ~IsSome(scenario.config)
    /\ scenario' = [scenario EXCEPT !.config =
            Some(buildSignOption(scenario.options, scenario.resolved))]
    /\ UNCHANGED <<urlFetch, closures, handles, lastOp, fetchLog, zgaNs, calls, clock>>

NextConfig == BuildConfig

SpecConfig == InitConfig /\ [][NextConfig]_vars

Built == IsSome(scenario.config)

(* key is a key of the built config (with whatever value).                 *)
HasKey(key) == key \in DOMAIN Get(scenario.config)

(* C16: at SES the config has neither signdate nor ltv, whatever tsa and   *)
(* ltvMethod are; at AES signdate is {url, headers} when tsa has a         *)
(* (non-empty) URL and headers, the URL string when it has a URL only, and *)
(* the preset "1" when it has no URL (absent or empty, with or without     *)
(* headers); ltv is 2 when ltvMethod is 2 and 1 otherwise.                 *)
C16_TimestampByLevel ==
    Built =>
        LET options == scenario.options
            config == Get(scenario.config)
            hasUrl == IsSome(options.tsa) /\ IsSome(Get(options.tsa).url)
                        /\ Get(Get(options.tsa).url) # ""
        IN  IF options.level = SES
            THEN ~HasKey("signdate") /\ ~HasKey("ltv")
            ELSE /\ HasKey("signdate") /\ HasKey("ltv")
                 /\ (hasUrl /\ IsSome(Get(options.tsa).headers)) =>
                        config["signdate"] = Some([type |-> "object",
                                                   url |-> Get(Get(options.tsa).url),
                                                   headers |-> Get(Get(options.tsa).headers)])
                 /\ (hasUrl /\ ~IsSome(Get(options.tsa).headers)) =>
                        config["signdate"] = Some([type |-> "string",
                                                   value |-> Get(Get(options.tsa).url)])
                 /\ ~hasUrl => config["signdate"] = Some([type |-> "string", value |-> "1"])
                 /\ config["ltv"] = IF options.ltvMethod = Some(2) THEN Some(2) ELSE Some(1)

(* SES with a TSA URL, headers and ltvMethod 2: none of it reaches the config *)
C16_Witness ==
    /\ Built
    /\ scenario.options.level = SES
    /\ IsSome(scenario.options.tsa)
    /\ IsSome(Get(scenario.options.tsa).url) /\ IsSome(Get(scenario.options.tsa).headers)
    /\ scenario.options.ltvMethod = Some(2)
    /\ ~HasKey("signdate") /\ ~HasKey("ltv")

(* The metadata fields and the config keys they are copied to.             *)
MetadataKeys ==
    [reason |-> "reason", location |-> "location", contact |-> "contact", name |-> "signame"]

(* C17: p12cert and pwd are the resolved container bytes and password;     *)
(* permission, reason, location, contact, signame, debug and the text's    *)
(* align are keys of the config only if the caller supplied the option,    *)
(* and then hold its value (align translated left=0, center=1, right=2);   *)
(* no key of the config holds undefined.                                   *)
C17_AbsentOptionsOmitted ==
    Built =>
        LET options == scenario.options
            config == Get(scenario.config)
        IN  /\ HasKey("p12cert") /\ config["p12cert"] = Some(scenario.resolved.p12Buffer)
            /\ HasKey("pwd") /\ config["pwd"] = Some(scenario.resolved.password)
            /\ HasKey("permission") =>
                    IsSome(options.permission) /\ config["permission"] = options.permission
            /\ IsSome(options.permission) => HasKey("permission")
            /\ \A f \in DOMAIN MetadataKeys :
                    /\ HasKey(MetadataKeys[f]) =>
                            /\ IsSome(options.metadata)
                            /\ IsSome(Get(options.metadata)[f])
                            /\ config[MetadataKeys[f]] = Get(options.metadata)[f]
                    /\ (IsSome(options.metadata) /\ IsSome(Get(options.metadata)[f])) =>
                            HasKey(MetadataKeys[f])
            /\ HasKey("debug") => IsSome(options.debug) /\ config["debug"] = options.debug
            /\ options.debug = Some(TRUE) => HasKey("debug")
            /\ (HasKey("drawinf") /\ "textInfo" \in DOMAIN Get(config["drawinf"])) =>
                    LET text == Get(Get(options.visibleSignature).text)
                        textInfo == Get(Get(config["drawinf"])["textInfo"])
                    IN  /\ "align" \in DOMAIN textInfo =>
                                /\ IsSome(text.align)
                                /\ textInfo["align"] =
                                        Some(CASE Get(text.align) = "left" -> 0
                                               [] Get(text.align) = "center" -> 1
                                               [] Get(text.align) = "right" -> 2)
                        /\ IsSome(text.align) => "align" \in DOMAIN textInfo
            /\ \A key \in DOMAIN config : config[key] # None

----------------------------------------------------------------------------
(* PdfSigningService (certificates/P12Parser.ts:191-331): signPdf *)

SigningError(message, cause) ==
    [reason |-> "SIGNING_ERROR", message |-> message, cause |-> cause]

(* Lines 257-261: the certificate is resolved (its info extracted at time  *)
(* now1), then the options are validated (at time now2).  The result is    *)
(* the early return, if there is one, or what the destructuring at line   *)
(* 257 throws when resolveCertificate returned undefined.                  *)
SignPdfPrelude(options, now1, now2) ==
    LET resolved == resolveCertificate(options.certificate, now1)
    IN  IF IsUndefined(resolved) THEN Some(Thrown(NotIterable))
        ELSE IF resolved.isErr THEN Some(Err(Get(resolved.error)))
        ELSE LET validation == validateSigningOptions(options, Get(resolved.value).info, now2)
             IN  IF validation.isErr THEN Some(Err(Get(validation.error))) ELSE None

(* The stages lines 257-269 run, in the order they run: the certificate is *)
(* resolved, the options are validated if that succeeded, the sign option  *)
(* is built if that succeeded too.                                         *)
PreludeStages(options, now1, now2) ==
    LET resolved == resolveCertificate(options.certificate, now1)
    IN  <<"resolve">>
        \o (IF IsUndefined(resolved) \/ resolved.isErr THEN <<>>
            ELSE <<"validate">>
                 \o (IF validateSigningOptions(options, Get(resolved.value).info, now2).isErr
                     THEN <<>> ELSE <<"build">>))

(* an install for every call that has a proxy, whatever its level *)
InstallsInterceptor_AnyLevel(options) == IsSome(options.proxy)

(* Line 274: whether the interceptor is installed.                         *)
InstallsInterceptor(options) == IsSome(options.proxy) /\ options.level = AES

(* a restore placed after the try statement: skipped when the catch block returns *)
FinallyRestores_NotOnThrow(restoreUrlFetch, path) ==
    restoreUrlFetch # 0 /\ path \notin {"constructorThrows", "signRejects"}

(* Lines 311-313: finally { restoreUrlFetch?.() } runs on every path out   *)
(* of the try statement.                                                   *)
FinallyRestores(restoreUrlFetch, path) == restoreUrlFetch # 0

(* Lines 286-310: the result for what the engine did; error is what the   *)
(* constructor or sign() threw.                                            *)
SignPdfResult(options, info, path, error) ==
    CASE path \in {"constructorThrows", "signRejects"} ->
            Err(SigningError(<<"PDF signing failed: ">> \o MessageOf(error), Some(error)))
      [] path = "emptyOutput" ->
            Err([reason |-> "SIGNING_ERROR", message |-> <<"Signing produced empty output.">>])
      [] path = "signedBytes" ->
            Ok([pdf |-> "signedBytes", certificate |-> info,
                ltvEnabled |-> IF options.level = AES THEN Some(TRUE) ELSE None])

ConstructorError == ErrorOf("TypeError", <<"p12cert is not valid">>)
SignError == ErrorOf("Error", <<"Failed to fetch">>)
ImportError == ErrorOf("TypeError", <<"Failed to fetch dynamically imported module">>)
NoError == ErrorOf("", <<>>)

(* A rejection of sign() with a plain object, not an instance of Error.    *)
PlainRejection ==
    [instanceOfError |-> FALSE, name |-> "Custom", message |-> <<"quota exceeded">>,
     string |-> <<"[object Object]">>]

(* The inputs *)
NCalls == 2

GoodCertificate ==
    [subject |-> <<[shortName |-> "CN", value |-> "Alice"], [shortName |-> "O", value |-> "Org"]>>,
     issuer |-> <<[shortName |-> "CN", value |-> "Test CA"]>>,
     notBefore |-> -2, notAfter |-> MaxTime + 2, serialNumber |-> "0a1b"]

P12Provider(password) ==
    [type |-> "p12",
     data |-> [wellFormed |-> TRUE, password |-> "secret", certBag |-> <<Some(GoodCertificate)>>,
               shroudedKeyBag |-> <<Some([id |-> "rsa", encodable |-> TRUE])>>, keyBag |-> <<>>],
     password |-> password]

PemProvider(notAfter) ==
    [type |-> "pem",
     certificate |-> [cert |-> Some([GoodCertificate EXCEPT !.notAfter = notAfter])],
     privateKey |-> [marked |-> FALSE, wellFormed |-> TRUE, passphrase |-> "pw",
                     wrongPassphrase |-> "null", key |-> [id |-> "rsa", encodable |-> TRUE]],
     passphrase |-> None]

ProxyA == [baseUrl |-> S_https \o S_proxyHost \o S_slash, headers |-> None]
ProxyB == [baseUrl |-> S_http \o S_proxyHost \o S_api,
           headers |-> Some([n \in {"Authorization"} |-> "proxy-token"])]

SignOption(level, proxy, certificate) ==
    [level |-> level, proxy |-> proxy, certificate |-> certificate,
     visibleSignature |-> None, debug |-> FALSE]

(* A provider whose certificate is its own issuer.                         *)
SelfSignedProvider ==
    [type |-> "pem",
     certificate |-> [cert |-> Some([GoodCertificate EXCEPT !.issuer = GoodCertificate.subject])],
     privateKey |-> [marked |-> FALSE, wellFormed |-> TRUE, passphrase |-> "pw",
                     wrongPassphrase |-> "null", key |-> [id |-> "rsa", encodable |-> TRUE]],
     passphrase |-> None]

SignOptions ==
    { SignOption(AES, Some(ProxyA), P12Provider("secret")),
      SignOption(AES, Some(ProxyB), SelfSignedProvider),
      SignOption(SES, Some(ProxyA), P12Provider("secret")),
      SignOption(SES, None, SelfSignedProvider),
      SignOption(AES, None, P12Provider("secret")),
      SignOption(SES, None, P12Provider("guess")),
      SignOption(SES, None, PemProvider(-1)),
      SignOption(SES, None, [PemProvider(-1) EXCEPT !.type = "der"]) }

(* What the engine does in a behaviour: the request it fetches, and what   *)
(* sign() rejects with when it rejects.                                    *)
EngineRequests ==
    { [url |-> S_http \o S_tsaHost \o S_ts,
       params |-> Some([other |-> [n \in {"method"} |-> "POST"],
                        headers |-> Some([n \in {"Content-Type"} |-> "engine/type"])]),
       rejection |-> SignError],
      [url |-> S_https \o S_proxyHost \o S_ts, params |-> None,
       rejection |-> PlainRejection] }

IdleCall ==
    [pc |-> "idle", options |-> None, info |-> None, restoreUrlFetch |-> 0,
     settled |-> "pending", result |-> None, thrown |-> None,
     engine |-> "none", installs |-> 0, restoreCalls |-> 0, constructed |-> 0,
     urlFetchAtReturn |-> 0, stages |-> <<>>, overlapped |-> FALSE, warnings |-> <<>>]

Init ==
    /\ urlFetch = 0
    /\ closures = <<>>
    /\ handles = <<>>
    /\ lastOp = NoOp
    /\ fetchLog = NoFetch
    /\ zgaNs = FALSE
    /\ calls = [i \in 1..NCalls |-> IdleCall]
    /\ clock = 0
    /\ scenario \in EngineRequests

(* signPdf(options) up to its first await: resolve, validate, build the    *)
(* sign option, then await getZgaNamespace(), which imports the engine     *)
(* module unless it is memoized.  Calls are numbered in the order they     *)
(* begin.  The clock stands still in this specification (SpecValidate lets *)
(* it advance between the extraction of the info and the validation).      *)
Begin(i) ==
    /\ calls[i].pc = "idle"
    /\ i > 1 => calls[i - 1].pc # "idle"
    /\ \E options \in SignOptions :
        LET early == SignPdfPrelude(options, clock, clock)
        IN  calls' = [calls EXCEPT ![i] =
                    IF IsSome(early) /\ IsThrown(Get(early))
                    THEN [@ EXCEPT !.pc = "returned", !.options = Some(options),
                                   !.settled = "rejected",
                                   !.thrown = Some(Get(early).thrown),
                                   !.urlFetchAtReturn = urlFetch,
                                   !.stages = PreludeStages(options, clock, clock)]
                    ELSE IF IsSome(early)
                    THEN [@ EXCEPT !.pc = "returned", !.options = Some(options),
                                   !.settled = "fulfilled", !.result = early,
                                   !.urlFetchAtReturn = urlFetch,
                                   !.stages = PreludeStages(options, clock, clock)]
                    ELSE [@ EXCEPT !.pc = IF zgaNs THEN "haveNamespace" ELSE "importing",
                                   !.options = Some(options),
                                   !.stages = PreludeStages(options, clock, clock),
                                   !.info = Some(Get(resolveCertificate(options.certificate, clock).value).info),
                                   !.warnings = Get(validateSigningOptions(options,
                                        Get(resolveCertificate(options.certificate, clock).value).info,
                                        clock).value).warnings]]
    /\ fetchLog' = NoFetch
    /\ UNCHANGED <<urlFetch, closures, handles, lastOp, zgaNs, clock, scenario>>

(* getZgaNamespace: import('zgapdfsigner') resolves; the namespace is memoized. *)
ImportResolves(i) ==
    /\ calls[i].pc = "importing"
    /\ zgaNs' = TRUE
    /\ calls' = [calls EXCEPT ![i].pc = "haveNamespace"]
    /\ fetchLog' = NoFetch
    /\ UNCHANGED <<urlFetch, closures, handles, lastOp, clock, scenario>>

(* getZgaNamespace: import('zgapdfsigner') rejects; the await at line 271  *)
(* is outside the try statement, so signPdf's promise rejects.             *)
ImportRejects(i) ==
    /\ calls[i].pc = "importing"
    /\ calls' = [calls EXCEPT ![i] =
            [@ EXCEPT !.pc = "returned", !.settled = "rejected", !.thrown = Some(ImportError),
                      !.engine = "importRejects", !.urlFetchAtReturn = urlFetch]]
    /\ fetchLog' = NoFetch
    /\ UNCHANGED <<urlFetch, closures, handles, lastOp, zgaNs, clock, scenario>>

(* Lines 272-286, run without suspension: install the interceptor when     *)
(* level is AES and a proxy is given, construct the signer, call sign().   *)
(* A constructor that throws goes through catch and finally at once.       *)
InvokeEngine(i) ==
    /\ calls[i].pc = "haveNamespace"
    /\ \E constructorThrows \in BOOLEAN :
        LET options == Get(calls[i].options)
            installs == InstallsInterceptor(options)
            handle == IF installs THEN Len(closures) + 1 ELSE 0
            patched == IF installs THEN handle ELSE urlFetch
            outstanding == \E j \in 1..NCalls :
                                j # i /\ calls[j].pc = "signing" /\ calls[j].installs = 1
            cl == IF installs
                  THEN Append(closures, PatchClosure(urlFetch, Get(options.proxy)))
                  ELSE closures
            restores == FinallyRestores(handle, "constructorThrows")
            after == IF restores THEN RestoreUrlFetch(cl, handle) ELSE patched
        IN  /\ closures' = cl
            /\ handles' = IF installs
                          THEN Append(handles, [before |-> urlFetch, proxy |-> Get(options.proxy)])
                          ELSE handles
            /\ IF constructorThrows
               THEN /\ urlFetch' = after
                    /\ calls' = [calls EXCEPT ![i] =
                            [@ EXCEPT !.pc = "returned", !.restoreUrlFetch = handle,
                                      !.installs = IF installs THEN 1 ELSE 0,
                                      !.constructed = 1,
                                      !.overlapped = installs /\ outstanding,
                                      !.restoreCalls = IF restores THEN 1 ELSE 0,
                                      !.engine = "constructorThrows",
                                      !.settled = "fulfilled",
                                      !.thrown = Some(ConstructorError),
                                      !.result = Some(SignPdfResult(options, Get(calls[i].info),
                                                        "constructorThrows", ConstructorError)),
                                      !.urlFetchAtReturn = after,
                                      !.stages = calls[i].stages
                                            \o (IF installs THEN <<"install">> ELSE <<>>)
                                            \o <<"invoke">>
                                            \o (IF restores THEN <<"restore">> ELSE <<>>)]]
               ELSE /\ urlFetch' = patched
                    /\ calls' = [calls EXCEPT ![i] =
                            [@ EXCEPT !.pc = "signing", !.restoreUrlFetch = handle,
                                      !.installs = IF installs THEN 1 ELSE 0,
                                      !.constructed = 1,
                                      !.overlapped = installs /\ outstanding,
                                      !.stages = calls[i].stages
                                            \o (IF installs THEN <<"install">> ELSE <<>>)
                                            \o <<"invoke">>]]
    /\ fetchLog' = NoFetch
    /\ UNCHANGED <<lastOp, zgaNs, clock, scenario>>

(* While sign() runs at level AES the engine fetches (timestamp, OCSP,     *)
(* CRL, chain) through whatever zga.urlFetch is at that moment.            *)
EngineFetch(i) ==
    /\ calls[i].pc = "signing"
    /\ Get(calls[i].options).level = AES
    /\ fetchLog' = FetchRecord(closures, i, urlFetch, scenario.url, scenario.params)
    /\ UNCHANGED <<urlFetch, closures, handles, lastOp, zgaNs, calls, clock, scenario>>

(* sign() settles: signed bytes, empty output or a rejection; then the     *)
(* finally block, then signPdf returns.                                    *)
SignSettles(i) ==
    /\ calls[i].pc = "signing"
    /\ \E path \in {"signedBytes", "emptyOutput", "signRejects"} :
        LET handle == calls[i].restoreUrlFetch
            restores == FinallyRestores(handle, path)
            after == IF restores THEN RestoreUrlFetch(closures, handle) ELSE urlFetch
        IN  /\ urlFetch' = after
            /\ calls' = [calls EXCEPT ![i] =
                    [@ EXCEPT !.pc = "returned",
                              !.restoreCalls = IF restores THEN 1 ELSE 0,
                              !.engine = path,
                              !.settled = "fulfilled",
                              !.thrown = IF path = "signRejects" THEN Some(scenario.rejection) ELSE None,
                              !.result = Some(SignPdfResult(Get(calls[i].options), Get(calls[i].info), path,
                                                IF path = "signRejects" THEN scenario.rejection ELSE NoError)),
                              !.urlFetchAtReturn = after,
                              !.stages = calls[i].stages
                                    \o (IF restores THEN <<"restore">> ELSE <<>>)]]
    /\ fetchLog' = NoFetch
    /\ UNCHANGED <<closures, handles, lastOp, zgaNs, clock, scenario>>

Next ==
    \E i \in 1..NCalls :
        \/ Begin(i)
        \/ ImportResolves(i)
        \/ ImportRejects(i)
        \/ InvokeEngine(i)
        \/ EngineFetch(i)
        \/ SignSettles(i)

Spec == Init /\ [][Next]_vars

----------------------------------------------------------------------------
(* Properties of signPdf (Spec) *)

Returned(i) == calls[i].pc = "returned"

(* C1: a call that installed the interceptor has invoked its restore       *)
(* function once when it returns, on every path out of the engine          *)
(* invocation, and zga.urlFetch is then the function that was in place     *)
(* immediately before the install.                                         *)
C1_RestoredOnReturn ==
    \A i \in 1..NCalls :
        (Returned(i) /\ calls[i].installs = 1) =>
            /\ calls[i].restoreCalls = 1
            /\ calls[i].urlFetchAtReturn = handles[calls[i].restoreUrlFetch].before

(* two calls that installed: one left by a throwing constructor, one by a  *)
(* rejected sign()                                                         *)
C1_Witness ==
    /\ Returned(1) /\ calls[1].installs = 1 /\ calls[1].engine = "constructorThrows"
    /\ Returned(2) /\ calls[2].installs = 1 /\ calls[2].engine = "signRejects"

(* C3: once every call has returned, zga.urlFetch is the engine's own      *)
(* function.                                                               *)
C3_NoPatchOutlives ==
    (\A i \in 1..NCalls : Returned(i)) => urlFetch = 0

(* C9: the promise of a returned call is fulfilled, never rejected; when   *)
(* the engine failed it is fulfilled with an error result, and what the    *)
(* constructor or sign() threw is the cause of a SIGNING_ERROR.            *)
C9_NeverRaises ==
    \A i \in 1..NCalls :
        Returned(i) =>
            /\ calls[i].settled = "fulfilled"
            /\ IsSome(calls[i].result)
            /\ calls[i].engine \in {"importRejects", "constructorThrows", "signRejects", "emptyOutput"}
                    => Get(calls[i].result).isErr
            /\ calls[i].engine \in {"constructorThrows", "signRejects"}
                    => /\ FailsWith(Get(calls[i].result), "SIGNING_ERROR")
                       /\ Get(Get(calls[i].result).error).cause = calls[i].thrown

(* The stages of signPdf in their fixed order.                             *)
StageOrder == <<"resolve", "validate", "build", "install", "invoke", "restore">>

StageIndex(st) ==
    CASE st = "resolve" -> 1
      [] st = "validate" -> 2
      [] st = "build" -> 3
      [] st = "install" -> 4
      [] st = "invoke" -> 5
      [] st = "restore" -> 6

(* The stages a call went through are in the fixed order, each at most once. *)
InStageOrder(stages) ==
    \A m, n \in 1..Len(stages) : m < n => StageIndex(stages[m]) < StageIndex(stages[n])

Went(i, st) == \E n \in 1..Len(calls[i].stages) : calls[i].stages[n] = st

(* The resolution or the validation of call i failed.                      *)
PreludeOutcome ==
    [options \in SignOptions, now \in 0..MaxTime |-> SignPdfPrelude(options, now, now)]

PreludeFailed(i) == IsSome(PreludeOutcome[Get(calls[i].options), clock])

(* C13: the stages of every call run in the order resolve, validate,       *)
(* build, install, invoke, restore, each at most once; the engine is       *)
(* invoked, and the interceptor installed, only in a call whose resolution *)
(* and validation succeeded; a call that reaches the engine has installed  *)
(* exactly when its level is AES and it has a proxy, and a call that       *)
(* installed restores after the invocation; a call whose resolution or     *)
(* validation failed neither installs nor invokes nor assigns              *)
(* zga.urlFetch.                                                           *)
C13_StageOrder ==
    \A i \in 1..NCalls :
        calls[i].pc # "idle" =>
            LET options == Get(calls[i].options)
                failed == PreludeFailed(i)
            IN  /\ InStageOrder(calls[i].stages)
                /\ calls[i].constructed <= 1 /\ calls[i].installs <= 1
                /\ (calls[i].constructed = 1) = Went(i, "invoke")
                /\ (calls[i].installs = 1) = Went(i, "install")
                /\ (calls[i].restoreCalls = 1) = Went(i, "restore")
                /\ Went(i, "invoke") =>
                        /\ Went(i, "resolve") /\ Went(i, "validate") /\ Went(i, "build")
                        /\ Went(i, "install") = (options.level = AES /\ IsSome(options.proxy))
                /\ Went(i, "install") => Went(i, "invoke")
                /\ (Returned(i) /\ Went(i, "install")) => Went(i, "restore")
                /\ Went(i, "restore") => Went(i, "install")
                /\ Went(i, "build") = ~failed
                /\ failed =>
                        /\ Returned(i)
                        /\ ~Went(i, "install") /\ ~Went(i, "invoke") /\ ~Went(i, "restore")
                        /\ calls[i].restoreUrlFetch = 0

(* one call at SES with a proxy that reached the engine without an install, *)
(* one at AES that went through all six stages                             *)
C13_Witness ==
    /\ Returned(1) /\ Get(calls[1].options).level = SES /\ IsSome(Get(calls[1].options).proxy)
    /\ calls[1].stages = <<"resolve", "validate", "build", "invoke">>
    /\ Returned(2) /\ calls[2].stages = StageOrder

(* No call installed while another call's install was outstanding: every   *)
(* call's restore preceded the next call's install.                        *)
Serialized == \A j \in 1..NCalls : ~calls[j].overlapped

(* The fetch in the log was issued on behalf of call i and was rewritten   *)
(* on its way to the engine's own function.                                *)
RewrittenFetchOf(i) ==
    /\ fetchLog.happened /\ fetchLog.call = i
    /\ fetchLog.arrived.url # fetchLog.url

(* The fetch in the log went through the patched function of call j.       *)
RECURSIVE InChain(_, _)
InChain(fn, k) ==
    IF fn = 0 THEN FALSE
    ELSE fn = k \/ InChain(closures[fn].originalUrlFetch, k)

RoutedThrough(j) ==
    /\ calls[j].installs = 1
    /\ InChain(fetchLog.via, calls[j].restoreUrlFetch)

(* C15: when a rewritten fetch issued on behalf of a call goes through     *)
(* another call's patched function, or reaches the engine's own function   *)
(* as anything but the call's own proxy URL and params, some call          *)
(* installed while another's install was outstanding: with serialized      *)
(* calls every rewritten fetch of a call goes through that call's patched  *)
(* function alone and to that call's own proxy.                            *)
C15_LeakOnlyWhenInterleaved ==
    \A i \in 1..NCalls :
        (RewrittenFetchOf(i) /\ Serialized) =>
            LET proxy == Get(Get(calls[i].options).proxy)
            IN  /\ fetchLog.via = calls[i].restoreUrlFetch
                /\ fetchLog.passed.fn = 0
                /\ \A j \in 1..NCalls : j # i => ~RoutedThrough(j)
                /\ fetchLog.arrived.url = buildProxiedUrl(proxy, fetchLog.url)
                /\ fetchLog.arrived.params
                        = PatchedParams(PatchClosure(0, proxy), fetchLog.params)

(* two AES calls with different proxies are signing at once, and a fetch   *)
(* issued on behalf of the first is rewritten to the second call's proxy   *)
C15_Witness ==
    /\ calls[1].pc = "signing" /\ calls[2].pc = "signing"
    /\ calls[1].installs = 1 /\ calls[2].installs = 1
    /\ Get(calls[1].options).proxy # Get(calls[2].options).proxy
    /\ RewrittenFetchOf(1)
    /\ fetchLog.via = calls[2].restoreUrlFetch
    /\ fetchLog.passed.url = buildProxiedUrl(Get(Get(calls[2].options).proxy), fetchLog.url)
    /\ ~Serialized

(* What resolveCertificate returns for the options of a call.              *)
ResolvedOf ==
    [options \in SignOptions, now \in 0..MaxTime |-> resolveCertificate(options.certificate, now)]

(* None of the validator's four hard-failure conditions holds.             *)
NoHardFailure(options, certInfo, now) ==
    /\ ~(options.level = AES /\ ~IsSome(options.proxy))
    /\ ~certInfo.isExpired
    /\ ~(now < certInfo.validFrom)
    /\ ~(/\ IsSome(options.visibleSignature)
          /\ ~IsSome(Get(options.visibleSignature).image)
          /\ ~IsSome(Get(options.visibleSignature).text))

HasWarning(i, code) ==
    \E n \in 1..Len(calls[i].warnings) : calls[i].warnings[n] = code

(* C18: for a call whose certificate resolved and whose options meet no    *)
(* hard failure, validation succeeded: its warnings hold SELF_SIGNED_AES   *)
(* exactly when the level is AES and the certificate is self-signed, and   *)
(* PROXY_TRAILING_SLASH exactly when a proxy is set and its baseUrl ends   *)
(* in '/', and nothing else; with or without warnings the call went on to  *)
(* build the sign option, and it returns only after the engine was         *)
(* invoked (or its import failed), never with a warning as its error; the  *)
(* CertificateInfo of the call and of its result is the one resolution     *)
(* returned.                                                               *)
C18_WarningsDoNotBlock ==
    \A i \in 1..NCalls :
        LET options == Get(calls[i].options)
            resolved == ResolvedOf[options, clock]
            certInfo == Get(resolved.value).info
            selfSigned == options.level = AES /\ certInfo.isSelfSigned
            slash == /\ IsSome(options.proxy)
                     /\ LET baseUrl == Get(options.proxy).baseUrl
                        IN  baseUrl # <<>> /\ baseUrl[Len(baseUrl)] = "/"
        IN  (/\ calls[i].pc # "idle"
             /\ ~IsUndefined(resolved)
             /\ ~resolved.isErr
             /\ NoHardFailure(options, certInfo, clock)) =>
                /\ HasWarning(i, "SELF_SIGNED_AES") <=> selfSigned
                /\ HasWarning(i, "PROXY_TRAILING_SLASH") <=> slash
                /\ Len(calls[i].warnings) = (IF selfSigned THEN 1 ELSE 0) + (IF slash THEN 1 ELSE 0)
                /\ Went(i, "build")
                /\ Returned(i) => (calls[i].constructed = 1 \/ calls[i].engine = "importRejects")
                /\ (Returned(i) /\ IsSome(calls[i].result) /\ Get(calls[i].result).isErr) =>
                        Get(Get(calls[i].result).error).reason = "SIGNING_ERROR"
                /\ calls[i].info = Some(certInfo)
                /\ calls[i].engine = "signedBytes" =>
                        Get(Get(calls[i].result).value).certificate = certInfo

(* a self-signed certificate at AES and a proxy with a trailing slash at   *)
(* SES: each call has its warning and both have signed                     *)
C18_Witness ==
    /\ Returned(1) /\ calls[1].warnings = <<"SELF_SIGNED_AES">>
    /\ calls[1].engine = "signedBytes" /\ ~Get(calls[1].result).isErr
    /\ Returned(2) /\ calls[2].warnings = <<"PROXY_TRAILING_SLASH">>
    /\ Get(calls[2].options).level = SES
    /\ calls[2].engine = "signedBytes" /\ ~Get(calls[2].result).isErr

====
